---- MODULE Spec2Model ----
(***************************************************************************)
(* State-machine model of movement/monge_ampere.py: the MongeAmpereMover   *)
(* relaxation loop adapt(), the l2_projector boundary-condition logic, the *)
(* x property and the diagnostics property.                                *)
(*                                                                         *)
(* The finite-element layer (firedrake) is external.  Fields are modelled  *)
(* with one degree of freedom per cell; the outcome of a linear solve, of  *)
(* the user's monitor function and of a mesh deformation is drawn from a   *)
(* small set.  Everything the source computes itself (the control flow of  *)
(* adapt, the arithmetic of diagnostics, theta and the residual, the       *)
(* classification of boundary normals) is computed as the source does, in  *)
(* exact rational arithmetic.  Norms are kept as their squares (sqrt is    *)
(* monotone on the non-negative numbers, so comparisons are unchanged).    *)
(***************************************************************************)
EXTENDS Integers, Naturals, Sequences, FiniteSets, TLC

(* ------------------------------ bounds --------------------------------- *)
\* the maxiter keyword argument ranges over 0..MaxIter
MaxIter == 2
\* number of adapt() calls made on one mover
MaxCalls == 2
\* number of exterior boundary segments of the mesh
MaxMarkers == 1

(* ------------------------- the discretisation -------------------------- *)
\* the cells of the mesh; a field has one value per cell
Cells == {1, 2}
NCells == Cardinality(Cells)
\* The potentials a solve can produce.  0 is the zero field; p also names the
\* displacement field that is the projected gradient of potential p, which
\* is zero for p = 0 only.
Potentials == {0, 1}
\* the values a monitor field takes in a cell
MonitorLevels == {1, 2}

(* --------------------------- rational numbers -------------------------- *)
RECURSIVE GCD(_, _)
GCD(a, b) == IF b = 0 THEN a ELSE GCD(b, a % b)

Abs(a) == IF a < 0 THEN -a ELSE a

\* the fraction n/d (d # 0) in lowest terms with a positive denominator
Rat(n, d) ==
    LET g == GCD(Abs(n), Abs(d))
        s == IF d < 0 THEN -1 ELSE 1
    IN  <<(s * n) \div g, (s * d) \div g>>

RAdd(a, b) == Rat(a[1] * b[2] + b[1] * a[2], a[2] * b[2])
RSub(a, b) == Rat(a[1] * b[2] - b[1] * a[2], a[2] * b[2])
RMul(a, b) == Rat(a[1] * b[1], a[2] * b[2])
RDiv(a, b) == Rat(a[1] * b[2], a[2] * b[1])
RLt(a, b) == a[1] * b[2] < b[1] * a[2]
RInt(k) == <<k, 1>>
Zero == RInt(0)
\* a local variable that is not bound yet
Unset == <<0, 0>>

RECURSIVE RSum(_, _)
\* sum of f[c] over the cells 1..n
RSum(f, n) == IF n = 0 THEN Zero ELSE RAdd(RSum(f, n - 1), f[n])

RMin(f) == CHOOSE x \in {f[c] : c \in Cells} : \A c \in Cells : ~RLt(f[c], x)
RMax(f) == CHOOSE x \in {f[c] : c \in Cells} : \A c \in Cells : ~RLt(x, f[c])

(* ------------------------------ inputs --------------------------------- *)
\* mesh dimensions tried
Dims == {2, 3}
\* A component of the integrated facet normal of a boundary segment:
\* 0 is a value np.isclose(., 0.0) accepts, 1 one that it rejects.
NormalVals == {0, 1}
Normals(d) == [1..d -> NormalVals]
MarkerSeqs(d) == UNION {[1..k -> Normals(d)] : k \in 0..MaxMarkers}
\* a mesh: its dimension and the integrated normals of
\* mesh.exterior_facets.unique_markers, in the order the array lists them
Meshes == UNION {[dim : {d}, normals : MarkerSeqs(d)] : d \in Dims}

\* the rtol keyword argument (default 1.0e-08), as a fraction
RTols == {<<0, 1>>, <<1, 4>>}
\* the maxiter keyword argument (default 1000)
MaxIters == 0..MaxIter
\* The user's monitor_function: either one that returns the constant field c,
\* or a general one whose value on a mesh is any positive field.
MonitorFunctions == [kind : {"constant"}, c : MonitorLevels] \cup [kind : {"general"}, c : {0}]
MonitorFields == [Cells -> MonitorLevels]

\* The values a tensor field takes in a cell: symmetric 2x2 tensors
\* <<s11, s12, s22>>, here the zero tensor and one with det(I + s) = 3.
ZeroTensor == <<0, 0, 0>>
Tensors == {ZeroTensor, <<1, 1, 1>>}
TensorFields == [Cells -> Tensors]
ZeroTensorField == [c \in Cells |-> ZeroTensor]

\* ufl.det(I + s)
DetIPlus(t) == (1 + t[1]) * (1 + t[3]) - t[2] * t[2]

\* cell volumes of the reference mesh, and those a deformed mesh can have:
\* the boundary does not move, so the total is unchanged
ReferenceVols == [c \in Cells |-> 2]
DeformedVols == {v \in [Cells -> {1, 2, 3}] :
                   RSum([c \in Cells |-> RInt(v[c])], NCells)
                     = RSum([c \in Cells |-> RInt(ReferenceVols[c])], NCells)}

(* ----------------------------- __init__ -------------------------------- *)
\* self.total_volume = assemble(Constant(1.0)*dx) on the reference mesh
total_volume == RSum([c \in Cells |-> RInt(ReferenceVols[c])], NCells)
\* self.original_volume: interpolation of CellVolume(mesh) at construction
original_volume == [c \in Cells |-> RInt(ReferenceVols[c])]

\* theta_value with the integral divided by the number of cells, not by the
\* total volume
theta_value_per_cell(m, so, cv) ==
    RDiv(RSum([c \in Cells |-> RInt(m[c] * DetIPlus(so[c]) * cv[c])], NCells),
         RInt(NCells))

\* firedrake.assemble(self.theta_form)/self.total_volume, the form being
\* monitor*det(I + sigma_old)*dx on the mesh as it currently stands
theta_value(m, so, cv) ==
    RDiv(RSum([c \in Cells |-> RInt(m[c] * DetIPlus(so[c]) * cv[c])], NCells),
         total_volume)

\* self.residual = monitor*det(I + sigma_old) - theta, cell by cell
residual_field(m, so, th) ==
    [c \in Cells |-> RSub(RInt(m[c] * DetIPlus(so[c])), th)]

\* square of assemble(psi*f*dx).dat.norm for a field f
norm_sq(f, cv) ==
    RSum([c \in Cells |-> RMul(RMul(f[c], RInt(cv[c])), RMul(f[c], RInt(cv[c])))], NCells)

(* ---------------------------- diagnostics ------------------------------ *)
\* v.sum()/v.max()
diag_mean(v) == RDiv(RSum(v, NCells), RMax(v))

\* square of std = np.sqrt(w.sum()/w.size), w = (v - mean)**2
diag_std_sq(v) ==
    LET mean == diag_mean(v)
        w == [c \in Cells |-> RMul(RSub(v[c], mean), RSub(v[c], mean))]
    IN  RDiv(RSum(w, NCells), RInt(NCells))

\* the three numbers the property returns; residual and equi as squares
diagnostics(v, m, so, th, cv) ==
    LET mean == diag_mean(v)
        residual_sq == norm_sq(residual_field(m, so, th), cv)
        normsq == norm_sq([c \in Cells |-> th], cv)
    IN  [minmax |-> RDiv(RMin(v), RMax(v)),
         residual |-> IF normsq[1] = 0 THEN Unset ELSE RDiv(residual_sq, normsq),
         equi |-> RDiv(diag_std_sq(v), RMul(mean, mean))]

(* ---------------------------- l2_projector ----------------------------- *)
AllClose0(n, d) == \A j \in 1..d : n[j] = 0

RECURSIVE ProjectorBCs(_, _, _, _)
\* The loop over the exterior markers, from marker k on: the error it raises
\* ("none" if it completes) and the Dirichlet conditions collected, each the
\* pair <<component of P1_vec constrained to 0, marker>>.
ProjectorBCs(dim, normals, k, bcs) ==
    IF k > Len(normals) THEN [err |-> "none", bcs |-> bcs]
    ELSE LET n == normals[k] IN
         IF AllClose0(n, dim) THEN [err |-> "ValueError", bcs |-> bcs]
         ELSE IF dim # 2 THEN [err |-> "NotImplementedError", bcs |-> bcs]
         ELSE IF n[1] = 0 THEN ProjectorBCs(dim, normals, k + 1, Append(bcs, <<1, k>>))
         ELSE IF n[2] = 0 THEN ProjectorBCs(dim, normals, k + 1, Append(bcs, <<0, k>>))
         ELSE [err |-> "NotImplementedError", bcs |-> bcs]

(* ------------------------------- state --------------------------------- *)
VARIABLES
    mesh,              \* the mesh handed to the constructor (dimension, boundary)
    maxiter,           \* self.maxiter
    rtol,              \* self.rtol
    monitor_function,  \* self.monitor_function
    phi, phi_old,      \* potentials
    sigma, sigma_old,  \* tensor fields
    theta,             \* self.theta
    monitor,           \* self.monitor
    volume,            \* self.volume
    _grad_phi,         \* output of the L2 projector: p stands for the projected gradient of potential p
    coords,            \* mesh.coordinates: which assignment wrote it, and its displacement from xi
    l2_projector,      \* self._l2_projector: whether the attribute is set, and the solver's boundary conditions
    pc,                \* position inside adapt(); "idle" outside it
    i,                 \* loop index of adapt()
    initial_norm, minmax, residual, equi,   \* locals of adapt()
    log,               \* the steps executed so far in the current iteration
    exit,              \* how the loop was left: "converged", "maxiter" or "none"
    outcome,           \* how the last adapt() call ended: "returned" or "raised"; "none" before it has
    error,             \* the exception that call raised
    calls,             \* adapt() calls made so far
    aborted            \* history: a pseudo-timestep or equidistributor solve has failed

config == <<mesh, maxiter, rtol, monitor_function>>
fields == <<phi, phi_old, sigma, sigma_old, theta, monitor, volume>>
geometry == <<_grad_phi, coords>>
locals == <<i, initial_norm, minmax, residual, equi>>
control == <<pc, log, exit, outcome, error, calls, aborted>>
vars == <<config, fields, geometry, l2_projector, locals, control>>

NoSolver == [built |-> FALSE, bcs |-> <<>>]
NoError == [type |-> "none", iters |-> 0, at |-> "none"]

\* mesh.coordinates after .assign(self.xi)
AtXi == [by |-> "xi", disp |-> 0]

\* the value monitor_function(mesh) can have
MonitorValues(f) ==
    IF f.kind = "constant" THEN {[c \in Cells |-> f.c]} ELSE MonitorFields

\* The cell volumes the measure dx can see on a mesh with coordinates x:
\* those of the reference mesh unless the mesh is displaced.
CellVolumes(x) == IF x.disp = 0 THEN {ReferenceVols} ELSE DeformedVols

\* x as a slip would have it: the reference coordinates, not xi + grad_phi
x_reference == [by |-> "xi", disp |-> 0]

\* self.x: grad_phi takes the values of _grad_phi, and x = xi + grad_phi
x == [by |-> "x", disp |-> _grad_phi]

(* State after MongeAmpereMover(mesh, monitor_function, **kwargs). *)
Init ==
    /\ mesh \in Meshes
    /\ maxiter \in MaxIters
    /\ rtol \in RTols
    /\ monitor_function \in MonitorFunctions
    /\ phi = 0 /\ phi_old = 0
    /\ sigma = ZeroTensorField /\ sigma_old = ZeroTensorField
    /\ theta = Zero
    /\ monitor \in MonitorValues(monitor_function)
    /\ volume = [c \in Cells |-> RInt(ReferenceVols[c])]
    /\ _grad_phi = 0
    /\ coords = AtXi
    /\ l2_projector = NoSolver
    /\ pc = "idle" /\ i = 0
    /\ initial_norm = Unset /\ minmax = Unset /\ residual = Unset /\ equi = Unset
    /\ log = <<>> /\ exit = "none" /\ outcome = "none" /\ error = NoError
    /\ calls = 0
    /\ aborted = FALSE

(* ------------------------------- adapt --------------------------------- *)
\* the convergence test with <= for <
converged_or_equal(res, tol) == ~RLt(RMul(tol, tol), res)
\* the divergence test with factor 3 for 2
diverged_thrice(res, init) == RLt(RMul(RInt(9), init), res)

\* residual < rtol, on the squares
converged(res, tol) == RLt(res, RMul(tol, tol))
\* residual > 2.0*initial_norm, on the squares
diverged(res, init) == RLt(RMul(RInt(4), init), res)

\* StepOrder with theta evaluated before the coordinates are restored
StepOrder_theta_first ==
    <<"project", "move", "monitor", "theta", "restore", "diagnostics",
      "print", "convergence", "divergence", "pseudo", "equi", "copy">>

\* the order of the steps of one iteration
StepOrder == <<"project", "move", "monitor", "restore", "theta", "diagnostics",
               "print", "convergence", "divergence", "pseudo", "equi", "copy">>

\* An exception leaves adapt(): its locals are gone, the mover stays as it is.
\* n is the iteration count i + 1, which the ConvergenceError message carries;
\* for the other exceptions it records the iteration they were raised in.
Raise(type, n) ==
    /\ pc' = "idle"
    /\ outcome' = "raised"
    /\ error' = [type |-> type, iters |-> n, at |-> pc]
    /\ exit' = "none"
    /\ calls' = calls + 1
    /\ aborted' = (aborted \/ pc \in {"pseudo", "equi"})
    /\ i' = 0 /\ initial_norm' = Unset /\ minmax' = Unset
    /\ residual' = Unset /\ equi' = Unset

\* the step that follows step s within an iteration
Successor(s) == StepOrder[1 + CHOOSE k \in 1..(Len(StepOrder) - 1) : StepOrder[k] = s]

\* the step at pc is done and the iteration goes on with the next one
Step ==
    /\ pc' = Successor(pc)
    /\ log' = Append(log, pc)
    /\ UNCHANGED <<exit, outcome, error, calls, aborted>>

\* what the l2_projector property returns or raises
ProjectorProperty ==
    IF l2_projector.built THEN [err |-> "none", bcs |-> l2_projector.bcs]
    ELSE ProjectorBCs(mesh.dim, mesh.normals, 1, <<>>)

(* adapt() is called: maxiter and rtol are read, the loop is entered. *)
Adapt ==
    /\ pc = "idle"
    /\ calls < MaxCalls
    /\ i' = 0
    /\ log' = <<>>
    /\ pc' = IF maxiter > 0 THEN "project" ELSE "final"
    /\ exit' = IF maxiter > 0 THEN "none" ELSE "maxiter"
    /\ outcome' = "none"
    /\ error' = NoError
    /\ UNCHANGED <<config, fields, geometry, l2_projector, calls, aborted,
                   initial_norm, minmax, residual, equi>>

(* self.l2_projector raises while it builds the boundary conditions. *)
L2ProjectorInvalid ==
    /\ pc = "project"
    /\ ProjectorProperty.err # "none"
    /\ Raise(ProjectorProperty.err, i + 1)
    /\ log' = Append(log, pc)
    /\ UNCHANGED <<config, fields, geometry, l2_projector>>

(* self.l2_projector.solve() *)
L2Project ==
    /\ pc = "project"
    /\ ProjectorProperty.err = "none"
    /\ l2_projector' = [built |-> TRUE, bcs |-> ProjectorProperty.bcs]
    /\ _grad_phi' = phi_old
    /\ Step
    /\ UNCHANGED <<config, fields, coords, locals>>

(* self.l2_projector.solve() fails in the linear solver. *)
L2ProjectFails ==
    /\ pc = "project"
    /\ ProjectorProperty.err = "none"
    /\ l2_projector' = [built |-> TRUE, bcs |-> ProjectorProperty.bcs]
    /\ _grad_phi' \in Potentials
    /\ Raise("LinearSolveError", i + 1)
    /\ log' = Append(log, pc)
    /\ UNCHANGED <<config, fields, coords>>

(* self.mesh.coordinates.assign(self.x) inside the loop *)
MoveMesh ==
    /\ pc = "move"
    /\ coords' = x
    /\ Step
    /\ UNCHANGED <<config, fields, _grad_phi, l2_projector, locals>>

(* The monitor is interpolated on the mesh as it stands, L_P0 is assembled *)
(* into self.volume, which is divided by self.original_volume.             *)
UpdateMonitor ==
    /\ pc = "monitor"
    /\ monitor' \in MonitorValues(monitor_function)
    /\ \E cv \in CellVolumes(coords) :
         volume' = [c \in Cells |-> RDiv(RInt(monitor'[c] * cv[c]), original_volume[c])]
    /\ Step
    /\ UNCHANGED <<config, phi, phi_old, sigma, sigma_old, theta, geometry,
                   l2_projector, locals>>

\* RestoreMesh with the assignment to the coordinates left out
RestoreMesh_omitted ==
    /\ pc = "restore"
    /\ Step
    /\ UNCHANGED <<config, fields, geometry, l2_projector, locals>>

(* self.mesh.coordinates.assign(self.xi) *)
RestoreMesh ==
    /\ pc = "restore"
    /\ coords' = AtXi
    /\ Step
    /\ UNCHANGED <<config, fields, _grad_phi, l2_projector, locals>>

(* self.theta.assign(assemble(self.theta_form)/self.total_volume) *)
EvaluateTheta ==
    /\ pc = "theta"
    /\ \E cv \in CellVolumes(coords) : theta' = theta_value(monitor, sigma_old, cv)
    /\ Step
    /\ UNCHANGED <<config, phi, phi_old, sigma, sigma_old, monitor, volume,
                   geometry, l2_projector, locals>>

(* minmax, residual, equi = self.diagnostics; initial_norm on iteration 0 *)
Diagnose ==
    /\ pc = "diagnostics"
    /\ \E cv \in CellVolumes(coords) :
       LET d == diagnostics(volume, monitor, sigma_old, theta, cv) IN
         /\ minmax' = d.minmax
         /\ residual' = d.residual
         /\ equi' = d.equi
         /\ initial_norm' = IF i = 0 THEN d.residual ELSE initial_norm
    /\ Step
    /\ UNCHANGED <<config, fields, geometry, l2_projector, i>>

(* PETSc.Sys.Print of the progress record *)
PrintProgress ==
    /\ pc = "print"
    /\ Step
    /\ UNCHANGED <<config, fields, geometry, l2_projector, locals>>

(* if residual < rtol: break *)
CheckConvergence ==
    /\ pc = "convergence"
    /\ pc' = IF converged(residual, rtol) THEN "final" ELSE Successor(pc)
    /\ exit' = IF converged(residual, rtol) THEN "converged" ELSE exit
    /\ log' = Append(log, pc)
    /\ UNCHANGED <<config, fields, geometry, l2_projector, locals, outcome, error,
                   calls, aborted>>

(* if residual > 2.0*initial_norm: raise ConvergenceError *)
CheckDivergence ==
    /\ pc = "divergence"
    /\ IF diverged(residual, initial_norm)
         THEN /\ Raise("ConvergenceError", i + 1)
              /\ log' = Append(log, pc)
         ELSE /\ Step
              /\ UNCHANGED locals
    /\ UNCHANGED <<config, fields, geometry, l2_projector>>

\* The solution of the pseudo-timestep problem: phi_old plus the correction
\* the residual drives, which vanishes exactly when the residual field does.
PseudoSolutions ==
    IF \A c \in Cells : residual_field(monitor, sigma_old, theta)[c] = Zero
      THEN {phi_old} ELSE Potentials \ {phi_old}

(* self.pseudotimestepper.solve() *)
PseudoTimestep ==
    /\ pc = "pseudo"
    /\ phi' \in PseudoSolutions
    /\ Step
    /\ UNCHANGED <<config, phi_old, sigma, sigma_old, theta, monitor, volume,
                   geometry, l2_projector, locals>>

(* self.pseudotimestepper.solve() fails in the linear solver. *)
PseudoTimestepFails ==
    /\ pc = "pseudo"
    /\ phi' \in Potentials
    /\ Raise("LinearSolveError", i + 1)
    /\ log' = Append(log, pc)
    /\ UNCHANGED <<config, phi_old, sigma, sigma_old, theta, monitor, volume,
                   geometry, l2_projector>>

\* The solution of the equidistributor problem, the recovered Hessian of phi.
EquiSolutions == IF phi = 0 THEN {ZeroTensorField} ELSE TensorFields

(* self.equidistributor.solve() *)
Equidistribute ==
    /\ pc = "equi"
    /\ sigma' \in EquiSolutions
    /\ Step
    /\ UNCHANGED <<config, phi, phi_old, sigma_old, theta, monitor, volume,
                   geometry, l2_projector, locals>>

(* self.equidistributor.solve() fails in the linear solver. *)
EquidistributeFails ==
    /\ pc = "equi"
    /\ sigma' \in TensorFields
    /\ Raise("LinearSolveError", i + 1)
    /\ log' = Append(log, pc)
    /\ UNCHANGED <<config, phi, phi_old, sigma_old, theta, monitor, volume,
                   geometry, l2_projector>>

\* CopyOld without sigma_old.assign(sigma)
CopyOld_phi_only ==
    /\ pc = "copy"
    /\ phi_old' = phi
    /\ IF i + 1 < maxiter
         THEN /\ i' = i + 1
              /\ pc' = "project"
              /\ log' = <<>>
              /\ exit' = exit
         ELSE /\ i' = i
              /\ pc' = "final"
              /\ log' = Append(log, pc)
              /\ exit' = "maxiter"
    /\ UNCHANGED <<config, phi, sigma, sigma_old, theta, monitor, volume, geometry,
                   l2_projector, initial_norm, minmax, residual, equi,
                   outcome, error, calls, aborted>>

(* phi_old.assign(phi); sigma_old.assign(sigma); then the next i, if any *)
CopyOld ==
    /\ pc = "copy"
    /\ phi_old' = phi
    /\ sigma_old' = sigma
    /\ IF i + 1 < maxiter
         THEN /\ i' = i + 1
              /\ pc' = "project"
              /\ log' = <<>>
              /\ exit' = exit
         ELSE /\ i' = i
              /\ pc' = "final"
              /\ log' = Append(log, pc)
              /\ exit' = "maxiter"
    /\ UNCHANGED <<config, phi, sigma, theta, monitor, volume, geometry,
                   l2_projector, initial_norm, minmax, residual, equi,
                   outcome, error, calls, aborted>>

(* self.mesh.coordinates.assign(self.x) after the loop; adapt() returns. *)
FinalMove ==
    /\ pc = "final"
    /\ coords' = x
    /\ pc' = "idle"
    /\ outcome' = "returned"
    /\ error' = NoError
    /\ calls' = calls + 1
    /\ log' = Append(log, pc)
    /\ i' = 0 /\ initial_norm' = Unset /\ minmax' = Unset
    /\ residual' = Unset /\ equi' = Unset
    /\ UNCHANGED <<config, fields, _grad_phi, l2_projector, exit, aborted>>

Next ==
    \/ Adapt
    \/ L2ProjectorInvalid
    \/ L2Project
    \/ L2ProjectFails
    \/ MoveMesh
    \/ UpdateMonitor
    \/ RestoreMesh
    \/ EvaluateTheta
    \/ Diagnose
    \/ PrintProgress
    \/ CheckConvergence
    \/ CheckDivergence
    \/ PseudoTimestep
    \/ PseudoTimestepFails
    \/ Equidistribute
    \/ EquidistributeFails
    \/ CopyOld
    \/ FinalMove

Spec == Init /\ [][Next]_vars

(* ------------------------------- claims -------------------------------- *)
Returned == pc = "idle" /\ outcome = "returned"
Raised == pc = "idle" /\ outcome = "raised"
Diverged == Raised /\ error.type = "ConvergenceError"

\* C1, as stated: on every exit path of adapt() (convergence, exhaustion of
\* maxiter, divergence failure) the last write to the mesh coordinates is the
\* assignment of xi + displacement.
C1_Original ==
    (Returned \/ Diverged) => (coords.by = "x" /\ coords.disp = _grad_phi)

\* C1, amended: on the two exit paths that return (convergence, exhaustion of
\* maxiter) the last write to the mesh coordinates is the assignment of
\* xi + displacement, and it is the last step of the call; the divergence
\* failure leaves adapt() without it, the coordinates being xi.
C1_TerminalAssignment ==
    /\ Returned => /\ coords.by = "x" /\ coords.disp = _grad_phi
                   /\ exit \in {"converged", "maxiter"}
                   /\ log[Len(log)] = "final"
    /\ Diverged => coords.by = "xi" /\ coords.disp = 0

\* C1, witness: a call returned after maxiter iterations with a displaced mesh.
C1_Witness ==
    Returned /\ exit = "maxiter" /\ maxiter = 2 /\ coords.by = "x" /\ coords.disp # 0

\* C2, as stated: a call that returns leaves the coordinates at
\* xi + displacement, and a call that raises leaves them equal to xi.
C2_Original ==
    /\ Returned => (coords.by = "x" /\ coords.disp = _grad_phi)
    /\ Raised => coords.disp = 0

\* C2, amended: a call that returns leaves the coordinates at
\* xi + displacement; a call that raises leaves them at xi, except when the
\* projector's linear solve fails in the first iteration, before the loop has
\* written the coordinates: they are then what they were when adapt() was
\* called, the position the previous call's return left.
C2_NoPartialSuccess ==
    /\ Returned => (coords.by = "x" /\ coords.disp = _grad_phi)
    /\ Raised =>
         /\ error.type \in {"ConvergenceError", "ValueError", "NotImplementedError",
                            "LinearSolveError"}
         /\ \/ coords.by = "xi" /\ coords.disp = 0
            \/ /\ error.type = "LinearSolveError" /\ error.at = "project"
               /\ error.iters = 1 /\ calls > 1 /\ coords.by = "x"

\* C2, witness: the divergence check raised in an iteration that had moved
\* the mesh by a non-zero displacement, and the mesh is back at xi.
C2_Witness ==
    Diverged /\ _grad_phi # 0 /\ coords.by = "xi"

\* The comparisons of adapt() on the current residual, spelled out on the
\* squares the model keeps: residual > 2*initial_norm and residual < rtol.
ExceedsTwice == 4 * initial_norm[1] * residual[2] < residual[1] * initial_norm[2]
BelowRtol == residual[1] * rtol[2] * rtol[2] < rtol[1] * rtol[1] * residual[2]
\* the residual of the current iteration is computed and not yet acted upon
ResidualKnown == pc \in {"print", "convergence", "divergence"}
Solving == pc \in {"pseudo", "equi", "copy"}

\* C3: in any iteration, a residual above twice the residual of iteration 0
\* makes adapt() raise ConvergenceError with the count i + 1, before either
\* solve and before the copies to phi_old and sigma_old; this never happens in
\* iteration 0, and never while residual < rtol holds.
C3_DivergenceDetection ==
    /\ []((ResidualKnown /\ ExceedsTwice) => (i # 0 /\ ~BelowRtol))
    /\ [](Solving => ~ExceedsTwice)
    /\ [][(ResidualKnown /\ ExceedsTwice /\ pc # "divergence")
            => pc' \in {"convergence", "divergence"}]_vars
    /\ [][(pc = "divergence" /\ ExceedsTwice)
            => /\ pc' = "idle" /\ outcome' = "raised"
               /\ error' = [type |-> "ConvergenceError", iters |-> i + 1, at |-> "divergence"]
               /\ UNCHANGED <<fields, geometry>>]_vars

\* C3, witness: the divergence check raised in the second iteration.
C3_Witness ==
    Diverged /\ error.iters = 2 /\ phi = phi_old /\ sigma = sigma_old

\* what is left to do in a call: iterations not started, steps not taken
Variant == (maxiter - i) * 13 - Len(log)

\* C4: a call starts at most maxiter iterations; it leaves the loop at the
\* first iteration whose residual is < rtol (and returns) or > 2*initial_norm
\* (and raises), goes on to the solves only when neither holds, and returns
\* without raising once maxiter iterations have run; unless a sub-step raises
\* there is no other way out; a call in progress is always at a step that can
\* be taken, and every step brings the end of the call nearer, so the call
\* terminates.
C4_Termination ==
    /\ [](pc \notin {"idle", "final"} => i < maxiter)
    /\ [](Solving => (~BelowRtol /\ ~ExceedsTwice))
    /\ [](pc = "final" =>
            \/ exit = "converged" /\ BelowRtol
            \/ exit = "maxiter" /\ maxiter = 0 /\ log = <<>>
            \/ exit = "maxiter" /\ i + 1 = maxiter /\ log[Len(log)] = "copy")
    /\ [](pc # "idle" =>
            /\ Variant >= 0
            /\ pc \in {"project", "move", "monitor", "restore", "theta", "diagnostics",
                        "print", "convergence", "divergence", "pseudo", "equi",
                        "copy", "final"})
    /\ [][pc # "idle" => (pc' = "idle" \/ Variant' < Variant)]_vars
    /\ [][(pc = "convergence" /\ BelowRtol) => (pc' = "final" /\ exit' = "converged")]_vars
    /\ [][(pc = "divergence" /\ ExceedsTwice) => (pc' = "idle" /\ outcome' = "raised")]_vars
    /\ [][pc = "final" => (pc' = "idle" /\ outcome' = "returned")]_vars
    /\ [][(pc # "idle" /\ pc' = "idle") =>
            \/ outcome' = "returned" /\ pc = "final"
            \/ outcome' = "raised" /\ error'.type = "ConvergenceError"
                 /\ pc = "divergence" /\ ExceedsTwice
            \/ outcome' = "raised" /\ pc \in {"project", "pseudo", "equi"}
                 /\ error'.type \in {"ValueError", "NotImplementedError", "LinearSolveError"}]_vars

\* C4, witness: the loop is left after maxiter = 2 iterations that neither
\* converged nor diverged.
C4_Witness ==
    pc = "final" /\ exit = "maxiter" /\ maxiter = 2 /\ i = 1

\* the monitor function returns a positive constant field
Uniform == monitor_function.kind = "constant"
\* during, and right after, the first adapt() call on the mover
FirstCallRunning == calls = 0 /\ pc # "idle"
FirstCallReturned == calls = 1 /\ Returned

DiagnosticsKnown == ResidualKnown \/ Solving \/ (pc = "final" /\ log # <<>>)

\* the volumes are all equal
Equidistributed == \A c, d \in Cells : volume[c] = volume[d]

\* square of the coefficient of variation of v: the population variance
\* divided by the square of the arithmetic mean, sum/size
VariationSq(v) ==
    LET mean == RDiv(RSum(v, NCells), RInt(NCells))
        dev == [c \in Cells |-> RMul(RSub(v[c], mean), RSub(v[c], mean))]
    IN  RDiv(RDiv(RSum(dev, NCells), RInt(NCells)), RMul(mean, mean))

\* C6: equi is the coefficient of variation of the cell volumes, population
\* standard deviation over arithmetic mean; for equal volumes equi is 0 and
\* minmax is 1.
C6_Equi ==
    DiagnosticsKnown =>
      /\ equi = VariationSq(volume)
      /\ Equidistributed => (equi = Zero /\ minmax = RInt(1))

\* C7: on a mesh whose dimension is not 2, a call that runs the projector
\* ends there with NotImplementedError, whatever the boundary segments are.
C7_DimensionRejected ==
    (mesh.dim # 2 /\ log # <<>> /\ log[1] = "project") =>
      /\ Raised /\ error.type = "NotImplementedError" /\ error.at = "project"
      /\ ~l2_projector.built

\* the order of the steps of an iteration, as the claim lists them
C8_Order == <<"project", "move", "monitor", "restore", "theta", "diagnostics",
              "print", "convergence", "divergence", "pseudo", "equi", "copy">>

\* C8: the steps of an iteration are taken in the order projector solve,
\* move to xi + displacement, monitor and volume update, restore to xi, theta,
\* diagnostics, progress record, convergence check, divergence check,
\* pseudo-timestep solve, equidistributor solve, copies, none skipped or
\* repeated; the monitor and the volume are written only on the deformed
\* mesh, theta only on the mesh at xi, the residual is the one of that theta,
\* and potentials and tensors are written only after both checks have passed.
C8_StepOrder ==
    /\ [](\A k \in 1..Len(log) :
            \/ k <= Len(C8_Order) /\ log[k] = C8_Order[k]
            \/ k = Len(log) /\ log[k] = "final" /\ k \in {1, 9, 13})
    /\ [](pc \notin {"idle", "final"} => pc = C8_Order[Len(log) + 1])
    /\ [](ResidualKnown =>
            /\ theta = theta_value(monitor, sigma_old, ReferenceVols)
            /\ residual = diagnostics(volume, monitor, sigma_old, theta, ReferenceVols).residual)
    /\ [][(monitor' # monitor \/ volume' # volume)
            => (coords.by = "x" /\ coords.disp = _grad_phi /\ log[Len(log)] = "move")]_vars
    /\ [][theta' # theta
            => (coords.by = "xi" /\ coords.disp = 0 /\ log[Len(log)] = "restore")]_vars
    /\ [][(phi' # phi \/ sigma' # sigma \/ phi_old' # phi_old \/ sigma_old' # sigma_old)
            => (/\ Len(log) >= 9 /\ log[8] = "convergence" /\ log[9] = "divergence"
                /\ ~BelowRtol /\ ~ExceedsTwice)]_vars

\* C8, witness: the second iteration of a call, on a displaced mesh, has
\* taken every step up to the copies.
C8_Witness ==
    pc = "copy" /\ i = 1 /\ Len(log) = 11 /\ _grad_phi # 0 /\ phi # phi_old

Paired == phi_old = phi /\ sigma_old = sigma

C10_LatestPotential ==
    Returned => (phi = phi_old /\ coords.by = "x" /\ coords.disp = phi)

====
